---------------------------- MODULE Spec2Model ----------------------------
(***************************************************************************)
(* State-machine model of the WalletGenerator React component              *)
(* (src/src/components/WalletGenerator.jsx and its variant                 *)
(* src/unnamed/part_001, which replaces the ed25519-hd-key derivePath by   *)
(* an inline one).                                                         *)
(*                                                                         *)
(* Strings that the code takes apart (the recovery phrase) are sequences   *)
(* of tokens: a token is either the space character or a word, i.e. a      *)
(* maximal run of non-space characters.  Strings that the code only        *)
(* compares or copies are TLA+ strings.  JavaScript indices are 0-based;   *)
(* the element with JavaScript index i of a sequence s is s[i + 1].        *)
(* Cryptographic functions (PBKDF2, HMAC/SHA-512, Ed25519, secp256k1,      *)
(* Base58, Keccak) are injective constructors over their inputs.           *)
(***************************************************************************)
EXTENDS Integers, Sequences, FiniteSets, TLC

VARIABLES
    phase,              \* "mounted": rendered, load effect pending; "ready"
    derivePathImpl,     \* which derivePath the build links
    mnemonicWords,      \* useState([])
    pathTypes,          \* useState([])
    wallets,            \* useState([])
    visiblePrivateKeys, \* useState([])
    mnemonicInput,      \* useState("")
    showMnemonic,       \* useState(false)
    storage,            \* localStorage keys "wallets", "mnemonics", "paths"
    op,                 \* the operation that produced this state
    toasts,             \* the toast calls that operation made, in order
    derivations,        \* the generateWalletFromMnemonic calls it made
    issued,             \* account indices handed out since the last clear
    faults,             \* how many times localStorage.setItem has thrown
    clipboard           \* the navigator.clipboard.writeText calls it made

vars == <<phase, derivePathImpl, mnemonicWords, pathTypes, wallets,
          visiblePrivateKeys, mnemonicInput, showMnemonic, storage, op, toasts,
          derivations, issued, faults, clipboard>>

uiState == <<mnemonicWords, pathTypes, wallets, visiblePrivateKeys>>

(***************************************************************************)
(* Bounds                                                                  *)
(***************************************************************************)
MaxWallets == 3

\* how many localStorage.setItem calls of a run may throw
MaxFaults == 2

(***************************************************************************)
(* Recovery phrases                                                        *)
(***************************************************************************)
Space == " "

Phrase(ws) == <<ws[1], Space, ws[2], Space, ws[3]>>

\* a phrase generateMnemonic can return, and one the user can import
GeneratedWords == <<"zoo", "zoo", "wrong">>
ImportedWords  == <<"abandon", "abandon", "about">>
\* the word lists whose checksum matches
ValidWordLists == {GeneratedWords, ImportedWords}

\* what the user can type into the recovery phrase input
InputStrings ==
    { <<>>,                                         \* blank
      <<Space, Space>>,                             \* only white space
      Phrase(ImportedWords),                        \* a valid phrase
      <<Space>> \o Phrase(ImportedWords) \o <<Space>>, \* valid, padded
      Phrase(<<"abandon", "abandon", "abandon">>),  \* bad checksum
      <<"abandon", Space, Space, "abandon", Space, "about">> } \* double space

\* String.prototype.trim
RECURSIVE TrimLeft(_)
TrimLeft(s) ==
    IF s = <<>> THEN <<>>
    ELSE IF Head(s) = Space THEN TrimLeft(Tail(s)) ELSE s

RECURSIVE TrimRight(_)
TrimRight(s) ==
    IF s = <<>> THEN <<>>
    ELSE IF s[Len(s)] = Space THEN TrimRight(SubSeq(s, 1, Len(s) - 1)) ELSE s

Trim(s) == TrimRight(TrimLeft(s))

\* String.prototype.split(" "): the empty word is ""
RECURSIVE Split(_)
Split(s) ==
    IF s = <<>> THEN <<"">>
    ELSE IF Head(s) = Space THEN <<"">> \o Split(Tail(s))
    ELSE IF Len(s) = 1 THEN <<Head(s)>>
    ELSE <<Head(s)>> \o Split(Tail(Tail(s)))

\* Array.prototype.join(" ")
RECURSIVE Join(_)
Join(ws) ==
    IF ws = <<>> THEN <<>>
    ELSE LET w == IF Head(ws) = "" THEN <<>> ELSE <<Head(ws)>>
         IN  IF Len(ws) = 1 THEN w ELSE w \o <<Space>> \o Join(Tail(ws))

\* bip39 validateMnemonic: word count, word list and checksum
validateMnemonic(mnemonic) == Split(mnemonic) \in ValidWordLists

\* bip39 generateMnemonic
generateMnemonic == {Phrase(GeneratedWords)}

\* a seed that also depends on the collection at the time of the call
mnemonicToSeedSyncOfCollection(mnemonic) ==
    [pbkdf2 |-> mnemonic, salt |-> wallets]

\* bip39 mnemonicToSeedSync (PBKDF2, no passphrase)
mnemonicToSeedSync(mnemonic) == [pbkdf2 |-> mnemonic]


(***************************************************************************)
(* Derivation paths and derivePath                                         *)
(***************************************************************************)
\* pathTypes[0] of an empty array, and its rendering in a template string
Undefined == "undefined"

\* the chain types the keypair factory knows (pathTypeNames)
Solana   == "501"
Ethereum == "60"
pathTypeNames == {Solana, Ethereum}

\* a coin type the application does not offer (it can come from storage)
ForeignCoinType == "1"

\* the numbers whose decimal rendering occurs in a path
Numerals == (0 .. MaxWallets) \cup {44, 60, 501}

NaN == -1

\* parseInt of a path segment, and the test /^[0-9]+$/
IsDecimal(text) == \E n \in Numerals : ToString(n) = text
ParseInt(text) ==
    IF IsDecimal(text) THEN CHOOSE n \in Numerals : ToString(n) = text
    ELSE NaN

Segment(text, hardened) == [text |-> text, hardened |-> hardened]

\* `m/44'/${pathType}'/0'/${accountIndex}'`
PathOf(pathType, accountIndex) ==
    << Segment("m", FALSE), Segment("44", TRUE), Segment(pathType, TRUE),
       Segment("0", TRUE), Segment(ToString(accountIndex), TRUE) >>

\* the account index a path names
AccountIndex(path) == ParseInt(path[Len(path)].text)
CoinType(path) == path[3].text

\* a 32-bit big-endian index: the hardened bit and the low 31 bits
UInt32(high, low) == [high |-> high, low |-> low]

\* ed25519-hd-key: isValidPath, getMasterKeyFromSeed, CKDPriv per segment
RECURSIVE HdKeyChild(_, _)
HdKeyChild(parent, segs) ==
    IF segs = <<>> THEN parent
    ELSE HdKeyChild([hmacSha512 |-> [parent |-> <<parent>>,
                                     index |-> UInt32(1, ParseInt(Head(segs).text))]],
                    Tail(segs))

HdKeyValidPath(path) ==
    /\ Len(path) >= 2
    /\ path[1] = Segment("m", FALSE)
    /\ \A i \in 2 .. Len(path) : path[i].hardened /\ IsDecimal(path[i].text)

hdKeyDerivePath(path, seed) ==
    IF HdKeyValidPath(path)
    THEN [threw |-> FALSE,
          key |-> <<HdKeyChild([masterKey |-> seed], Tail(path))>>]
    ELSE [threw |-> TRUE, key |-> <<>>]

\* Buffer.writeUInt32BE(parseInt(segment) + 0x80000000): NaN is written as 0
IndexBuffer(text) ==
    IF ParseInt(text) = NaN THEN UInt32(0, 0) ELSE UInt32(1, ParseInt(text))

\* the loop of the inline derivePath: only hardened segments hash
RECURSIVE InlineLoop(_, _)
InlineLoop(currentSeed, segs) ==
    IF segs = <<>> THEN currentSeed
    ELSE IF Head(segs).hardened
         THEN InlineLoop([sha512First32 |-> [prefix |-> 0, seed |-> <<currentSeed>>,
                                             index |-> IndexBuffer(Head(segs).text)]],
                         Tail(segs))
         ELSE InlineLoop(currentSeed, Tail(segs))

inlineDerivePath(path, seed) ==
    [threw |-> FALSE, key |-> <<InlineLoop([seedBuffer |-> seed], Tail(path))>>]

derivePath(path, seed) ==
    IF derivePathImpl = "ed25519-hd-key" THEN hdKeyDerivePath(path, seed)
    ELSE inlineDerivePath(path, seed)

\* the number of bytes of a key: the 64-byte seed buffer, the first 32
\* bytes of a SHA-512 hash, or the 32-byte key half of an HMAC-SHA512
ByteLength(key) ==
    IF "seedBuffer" \in DOMAIN key THEN 64 ELSE 32

(***************************************************************************)
(* Notifications                                                           *)
(***************************************************************************)
Toast(kind, message) == [kind |-> kind, message |-> message]

(***************************************************************************)
(* generateWalletFromMnemonic                                              *)
(***************************************************************************)
Wallet(publicKey, privateKey, mnemonic, path) ==
    [publicKey |-> publicKey, privateKey |-> privateKey,
     mnemonic |-> mnemonic, path |-> path]

\* a handler that treats every chain type but Solana as Ethereum
KeypairBranchWithoutElse(pathType) ==
    IF pathType = Solana THEN "Solana" ELSE "Ethereum"

\* the if / else if / else over pathType
KeypairBranch(pathType) ==
    IF pathType = Solana THEN "Solana"
    ELSE IF pathType = Ethereum THEN "Ethereum"
    ELSE "UnsupportedChain"

\* the two encodings of a derived seed
SolanaKeys(derivedSeed) ==
    [publicKey |-> [encoding |-> "base58", of |-> [ed25519Public |-> derivedSeed]],
     privateKey |-> [encoding |-> "bs58", of |-> [ed25519Secret |-> derivedSeed]]]

EthereumKeys(derivedSeed) ==
    [publicKey |-> [encoding |-> "eip55", of |-> [secp256k1Address |-> derivedSeed]],
     privateKey |-> [encoding |-> "0xhex", of |-> [bytes |-> derivedSeed]]]

\* the result: wallet is <<w>> or <<>> (null), with the toasts of the call,
\* the arguments of the call and the branch the call ended in
generateWalletFromMnemonic(pathType, mnemonic, accountIndex) ==
    LET seedBuffer == mnemonicToSeedSync(mnemonic)
        path == PathOf(pathType, accountIndex)
        derived == derivePath(path, seedBuffer)
        branch == IF derived.threw THEN "catch" ELSE KeypairBranch(pathType)
        call == [pathType |-> pathType, mnemonic |-> mnemonic,
                 accountIndex |-> accountIndex]
        keys == IF branch = "Solana" THEN SolanaKeys(derived.key[1])
                ELSE EthereumKeys(derived.key[1])
    IN  CASE branch = "catch" ->
                [wallet |-> <<>>, branch |-> branch, call |-> call,
                 toasts |-> <<Toast("error",
                     "Failed to generate wallet. Check console for details.")>>]
          [] branch = "UnsupportedChain" ->
                [wallet |-> <<>>, branch |-> branch, call |-> call,
                 toasts |-> <<Toast("error", "Unsupported blockchain type")>>]
          [] OTHER ->
                [wallet |-> <<Wallet(keys.publicKey, keys.privateKey, mnemonic, path)>>,
                 branch |-> branch, call |-> call, toasts |-> <<>>]

(***************************************************************************)
(* localStorage                                                            *)
(***************************************************************************)
\* getItem of a key that is not set (null), a string JSON.parse rejects,
\* and JSON.stringify of a value
NoItem == [kind |-> "absent", value |-> <<>>]
Unparsable == [kind |-> "unparsable", value |-> <<>>]
Stringify(v) == [kind |-> "json", value |-> v]

\* JSON.parse: the value, or an exception
Parse(item) ==
    IF item.kind = "json" THEN [threw |-> FALSE, value |-> item.value]
    ELSE [threw |-> TRUE, value |-> <<>>]

\* the truthiness test of the load effect
Truthy(item) == item.kind # "absent"

EmptyStorage == [wallets |-> NoItem, mnemonics |-> NoItem, paths |-> NoItem]

\* what localStorage can hold when the component mounts for the first time:
\* nothing, or keys left by an earlier session or by another program
StoredWallet ==
    Wallet([encoding |-> "base58", of |-> [ed25519Public |-> [stored |-> 0]]],
           [encoding |-> "bs58", of |-> [ed25519Secret |-> [stored |-> 0]]],
           Phrase(GeneratedWords), PathOf(Solana, 0))

FirstStorages ==
    [wallets   : {NoItem, Unparsable, Stringify(<<>>), Stringify(<<StoredWallet>>)},
     mnemonics : {NoItem, Unparsable, Stringify(<<>>), Stringify(GeneratedWords)},
     paths     : {NoItem, Unparsable, Stringify(<<Solana>>),
                  Stringify(<<ForeignCoinType>>)}]

(***************************************************************************)
(* Array helpers                                                           *)
(***************************************************************************)
\* array.filter((_, i) => i !== index)
FilterOutIndex(array, index) ==
    LET keep == {j \in 1 .. Len(array) : j - 1 # index}
        at(k) == CHOOSE j \in keep : Cardinality({h \in keep : h < j}) = k - 1
    IN  [k \in 1 .. Cardinality(keep) |-> array[at(k)]]

\* array.map(() => false)
MapFalse(array) == [k \in 1 .. Len(array) |-> FALSE]

\* array[0]
First(array) == IF array = <<>> THEN Undefined ELSE array[1]

PathIndices(ws) == {AccountIndex(ws[k].path) : k \in 1 .. Len(ws)}

\* threw: the handler ended in an exception it did not catch
NoOp == [name |-> "mount", index |-> -1, threw |-> FALSE]
Op(name) == [name |-> name, index |-> -1, threw |-> FALSE]
OpAt(name, index) == [name |-> name, index |-> index, threw |-> FALSE]
OpThrew(name, index) == [name |-> name, index |-> index, threw |-> TRUE]

\* a handler that puts the new wallet first: [wallet, ...wallets]
PrependWallet(array, wallet) == wallet \o array

\* [...wallets, wallet], wallet being <<w>>
AppendWallet(array, wallet) == array \o wallet

(***************************************************************************)
(* The component                                                           *)
(***************************************************************************)
\* the useState initial values of a fresh mount
Mounted(store, impl) ==
    /\ phase = "mounted"
    /\ derivePathImpl = impl
    /\ mnemonicWords = <<>>
    /\ pathTypes = <<>>
    /\ wallets = <<>>
    /\ visiblePrivateKeys = <<>>
    /\ mnemonicInput = <<>>
    /\ storage = store
    /\ op = NoOp
    /\ toasts = <<>>
    /\ derivations = <<>>
    /\ issued = {}
    /\ faults = 0
    /\ showMnemonic = FALSE
    /\ clipboard = <<>>

DerivePathImpls == {"ed25519-hd-key", "inline"}

Init == \E store \in FirstStorages, impl \in DerivePathImpls : Mounted(store, impl)

InitFresh == \E impl \in DerivePathImpls : Mounted(EmptyStorage, impl)

\* a load that takes any one saved key for a saved state
HasAnySavedKey(store) ==
    Truthy(store.wallets) \/ Truthy(store.mnemonics) \/ Truthy(store.paths)

\* if (storedWallets && storedMnemonic && storedPathTypes)
HasSavedState(store) ==
    Truthy(store.wallets) /\ Truthy(store.mnemonics) /\ Truthy(store.paths)

\* what the load effect makes of a store, starting from the useState
\* values []: the setters run in the order mnemonicWords, wallets,
\* pathTypes, visiblePrivateKeys, up to the first JSON.parse that throws
LoadOutcome(store) ==
    LET m == Parse(store.mnemonics)
        w == Parse(store.wallets)
        p == Parse(store.paths)
        threw == m.threw \/ w.threw \/ p.threw
    IN  IF HasSavedState(store)
        THEN [mnemonicWords |-> IF m.threw THEN <<>> ELSE m.value,
              wallets |-> IF m.threw \/ w.threw THEN <<>> ELSE w.value,
              pathTypes |-> IF threw THEN <<>> ELSE p.value,
              visiblePrivateKeys |-> IF threw THEN <<>> ELSE MapFalse(w.value),
              toasts |-> IF threw
                         THEN <<Toast("error", "Failed to load saved wallets")>>
                         ELSE <<>>]
        ELSE [mnemonicWords |-> <<>>, wallets |-> <<>>, pathTypes |-> <<>>,
              visiblePrivateKeys |-> <<>>, toasts |-> <<>>]

\* useEffect(() => {...}, []): load saved wallets from localStorage
Load ==
    /\ phase = "mounted"
    /\ phase' = "ready"
    /\ op' = Op("load")
    /\ faults' = faults
    /\ showMnemonic' = showMnemonic
    /\ clipboard' = <<>>
    /\ LET loaded == LoadOutcome(storage)
       IN  /\ mnemonicWords' = loaded.mnemonicWords
           /\ wallets' = loaded.wallets
           /\ pathTypes' = loaded.pathTypes
           /\ visiblePrivateKeys' = loaded.visiblePrivateKeys
           /\ toasts' = loaded.toasts
           /\ issued' = PathIndices(loaded.wallets)
    /\ derivations' = <<>>
    /\ UNCHANGED <<derivePathImpl, mnemonicInput, storage>>

\* the page is loaded again: a fresh mount over the same localStorage
Reload ==
    /\ phase = "ready"
    /\ phase' = "mounted"
    /\ mnemonicWords' = <<>>
    /\ pathTypes' = <<>>
    /\ wallets' = <<>>
    /\ visiblePrivateKeys' = <<>>
    /\ mnemonicInput' = <<>>
    /\ op' = NoOp
    /\ faults' = faults
    /\ showMnemonic' = FALSE
    /\ clipboard' = <<>>
    /\ toasts' = <<>>
    /\ derivations' = <<>>
    /\ issued' = {}
    /\ UNCHANGED <<derivePathImpl, storage>>

\* wallets.length === 0 && pathTypes.length === 0: the Solana and Ethereum
\* buttons are rendered
ShowsChainChooser == Len(wallets) = 0 /\ Len(pathTypes) = 0

\* onClick of the Solana or the Ethereum button
ChooseChain(chain) ==
    /\ phase = "ready"
    /\ ShowsChainChooser
    /\ pathTypes' = <<chain>>
    /\ op' = Op("chooseChain")
    /\ faults' = faults
    /\ showMnemonic' = showMnemonic
    /\ clipboard' = <<>>
    /\ toasts' = <<Toast("info", IF chain = Solana THEN "Solana selected"
                                 ELSE "Ethereum selected")>>
    /\ derivations' = <<>>
    /\ UNCHANGED <<phase, derivePathImpl, mnemonicWords, wallets,
                   visiblePrivateKeys, mnemonicInput, storage, issued>>

\* a render that shows the recovery phrase entry whenever a chain is chosen
ShowsMnemonicEntryWithWallets == Len(pathTypes) > 0

\* wallets.length === 0 && pathTypes.length > 0: the recovery phrase input
\* and the Generate/Import Wallet button are rendered
ShowsMnemonicEntry == Len(wallets) = 0 /\ Len(pathTypes) > 0

\* onChange of the recovery phrase input
SetMnemonicInput(text) ==
    /\ phase = "ready"
    /\ ShowsMnemonicEntry
    /\ text # mnemonicInput
    /\ mnemonicInput' = text
    /\ op' = Op("setMnemonicInput")
    /\ faults' = faults
    /\ showMnemonic' = showMnemonic
    /\ clipboard' = <<>>
    /\ toasts' = <<>>
    /\ derivations' = <<>>
    /\ UNCHANGED <<phase, derivePathImpl, mnemonicWords, pathTypes, wallets,
                   visiblePrivateKeys, storage, issued>>

\* a delete that filters the mnemonic words by the wallet index as well
handleDeleteWalletFilteringWords(index) ==
    /\ phase = "ready"
    /\ index \in 0 .. Len(wallets) - 1
    /\ LET updatedWallets == FilterOutIndex(wallets, index)
           updatedPathTypes == FilterOutIndex(pathTypes, index)
       IN  /\ wallets' = updatedWallets
           /\ pathTypes' = updatedPathTypes
           /\ storage' = [storage EXCEPT !.wallets = Stringify(updatedWallets),
                                         !.paths = Stringify(updatedPathTypes)]
    /\ mnemonicWords' = FilterOutIndex(mnemonicWords, index)
    /\ visiblePrivateKeys' = FilterOutIndex(visiblePrivateKeys, index)
    /\ op' = OpAt("deleteWallet", index)
    /\ faults' = faults
    /\ showMnemonic' = showMnemonic
    /\ clipboard' = <<>>
    /\ toasts' = <<Toast("success", "Wallet deleted")>>
    /\ derivations' = <<>>
    /\ UNCHANGED <<phase, derivePathImpl, mnemonicInput, issued>>

\* the delete button of wallet `index`
handleDeleteWallet(index) ==
    /\ phase = "ready"
    /\ index \in 0 .. Len(wallets) - 1
    /\ LET updatedWallets == FilterOutIndex(wallets, index)
           updatedPathTypes == FilterOutIndex(pathTypes, index)
       IN  /\ wallets' = updatedWallets
           /\ pathTypes' = updatedPathTypes
           /\ storage' = [storage EXCEPT !.wallets = Stringify(updatedWallets),
                                         !.paths = Stringify(updatedPathTypes)]
    /\ visiblePrivateKeys' = FilterOutIndex(visiblePrivateKeys, index)
    /\ op' = OpAt("deleteWallet", index)
    /\ faults' = faults
    /\ showMnemonic' = showMnemonic
    /\ clipboard' = <<>>
    /\ toasts' = <<Toast("success", "Wallet deleted")>>
    /\ derivations' = <<>>
    /\ UNCHANGED <<phase, derivePathImpl, mnemonicWords, mnemonicInput, issued>>

\* a clear that forgets the "paths" key and setPathTypes([])
handleClearWalletsKeepingChain ==
    /\ phase = "ready"
    /\ Len(wallets) > 0
    /\ storage' = [storage EXCEPT !.wallets = NoItem, !.mnemonics = NoItem]
    /\ wallets' = <<>>
    /\ mnemonicWords' = <<>>
    /\ visiblePrivateKeys' = <<>>
    /\ op' = Op("clearAll")
    /\ faults' = faults
    /\ showMnemonic' = showMnemonic
    /\ clipboard' = <<>>
    /\ toasts' = <<Toast("info", "All wallets cleared")>>
    /\ derivations' = <<>>
    /\ issued' = {}
    /\ UNCHANGED <<phase, derivePathImpl, mnemonicInput, pathTypes>>

\* the Clear All button, rendered while there is a wallet
handleClearWallets ==
    /\ phase = "ready"
    /\ Len(wallets) > 0
    /\ storage' = [storage EXCEPT !.wallets = NoItem, !.mnemonics = NoItem,
                                  !.paths = NoItem]
    /\ wallets' = <<>>
    /\ mnemonicWords' = <<>>
    /\ pathTypes' = <<>>
    /\ visiblePrivateKeys' = <<>>
    /\ op' = Op("clearAll")
    /\ faults' = faults
    /\ showMnemonic' = showMnemonic
    /\ clipboard' = <<>>
    /\ toasts' = <<Toast("info", "All wallets cleared")>>
    /\ derivations' = <<>>
    /\ issued' = {}
    /\ UNCHANGED <<phase, derivePathImpl, mnemonicInput>>

\* the eye button of wallet `index`
togglePrivateKeyVisibility(index) ==
    /\ phase = "ready"
    /\ index \in 0 .. Len(wallets) - 1
    /\ visiblePrivateKeys' =
           [k \in 1 .. Len(visiblePrivateKeys) |->
               IF k - 1 = index THEN ~visiblePrivateKeys[k]
               ELSE visiblePrivateKeys[k]]
    /\ op' = OpAt("toggleVisibility", index)
    /\ faults' = faults
    /\ showMnemonic' = showMnemonic
    /\ clipboard' = <<>>
    /\ toasts' = <<>>
    /\ derivations' = <<>>
    /\ UNCHANGED <<phase, derivePathImpl, mnemonicWords, pathTypes, wallets,
                   mnemonicInput, storage, issued>>

\* a handler that reports the invalid phrase and goes on (a lost return)
RejectsNothing(input) == FALSE

\* the early return of handleGenerateWallet: a non-blank input that
\* validateMnemonic refuses
RejectsInput(input) ==
    LET mnemonic == Trim(input)
    IN  mnemonic # <<>> /\ ~validateMnemonic(mnemonic)

\* the Generate/Import Wallet button
handleGenerateWallet ==
    /\ phase = "ready"
    /\ ShowsMnemonicEntry
    /\ op' = Op("createFirstWallet")
    /\ faults' = faults
    /\ showMnemonic' = showMnemonic
    /\ clipboard' = <<>>
    /\ IF RejectsInput(mnemonicInput)
       THEN /\ toasts' = <<Toast("error", "Invalid recovery phrase")>>
            /\ derivations' = <<>>
            /\ UNCHANGED <<mnemonicWords, wallets, visiblePrivateKeys, storage,
                           issued>>
       ELSE \E mnemonic \in (IF Trim(mnemonicInput) # <<>>
                             THEN {Trim(mnemonicInput)} ELSE generateMnemonic) :
              LET words == Split(mnemonic)
                  r == generateWalletFromMnemonic(First(pathTypes), mnemonic,
                                                  Len(wallets))
                  updatedWallets == AppendWallet(wallets, r.wallet)
              IN  /\ mnemonicWords' = words
                  /\ derivations' = <<r>>
                  /\ IF r.wallet # <<>>
                     THEN /\ wallets' = updatedWallets
                          /\ storage' = [wallets |-> Stringify(updatedWallets),
                                         mnemonics |-> Stringify(words),
                                         paths |-> Stringify(pathTypes)]
                          /\ visiblePrivateKeys' = Append(visiblePrivateKeys, FALSE)
                          /\ toasts' = r.toasts \o
                                 <<Toast("success", "Wallet created successfully")>>
                          /\ issued' = issued \cup {Len(wallets)}
                     ELSE /\ toasts' = r.toasts
                          /\ UNCHANGED <<wallets, storage, visiblePrivateKeys,
                                         issued>>
    /\ UNCHANGED <<phase, derivePathImpl, pathTypes, mnemonicInput>>

\* onClick of the "Your Secret Recovery Phrase" header, rendered while there
\* are words and wallets
ToggleShowMnemonic ==
    /\ phase = "ready"
    /\ Len(mnemonicWords) > 0
    /\ Len(wallets) > 0
    /\ showMnemonic' = ~showMnemonic
    /\ op' = Op("toggleShowMnemonic")
    /\ toasts' = <<>>
    /\ derivations' = <<>>
    /\ clipboard' = <<>>
    /\ UNCHANGED <<phase, derivePathImpl, mnemonicWords, pathTypes, wallets,
                   visiblePrivateKeys, mnemonicInput, storage, issued, faults>>

\* visiblePrivateKeys[index] taken as a condition: undefined is falsy
FlagAt(flags, index) == index + 1 \in 1 .. Len(flags) /\ flags[index + 1]

\* navigator.clipboard.writeText(content), then the toast of the settled
\* promise
copyToClipboard(content) ==
    /\ clipboard' = <<content>>
    /\ \E fulfilled \in BOOLEAN :
           toasts' = <<IF fulfilled THEN Toast("success", "Copied to clipboard")
                       ELSE Toast("error", "Failed to copy")>>

\* onClick of the word grid, rendered while showMnemonic
CopyMnemonic ==
    /\ phase = "ready"
    /\ Len(mnemonicWords) > 0
    /\ Len(wallets) > 0
    /\ showMnemonic
    /\ copyToClipboard(Join(mnemonicWords))
    /\ op' = Op("copyMnemonic")
    /\ derivations' = <<>>
    /\ UNCHANGED <<phase, derivePathImpl, mnemonicWords, pathTypes, wallets,
                   visiblePrivateKeys, mnemonicInput, showMnemonic, storage,
                   issued, faults>>

\* onClick of the Public Key block of wallet `index`
CopyPublicKey(index) ==
    /\ phase = "ready"
    /\ index \in 0 .. Len(wallets) - 1
    /\ copyToClipboard(wallets[index + 1].publicKey)
    /\ op' = OpAt("copyPublicKey", index)
    /\ derivations' = <<>>
    /\ UNCHANGED <<phase, derivePathImpl, mnemonicWords, pathTypes, wallets,
                   visiblePrivateKeys, mnemonicInput, showMnemonic, storage,
                   issued, faults>>

\* onClick of the private key text of wallet `index`:
\* visiblePrivateKeys[index] && copyToClipboard(wallet.privateKey)
CopyPrivateKey(index) ==
    /\ phase = "ready"
    /\ index \in 0 .. Len(wallets) - 1
    /\ IF FlagAt(visiblePrivateKeys, index)
       THEN copyToClipboard(wallets[index + 1].privateKey)
       ELSE clipboard' = <<>> /\ toasts' = <<>>
    /\ op' = OpAt("copyPrivateKey", index)
    /\ derivations' = <<>>
    /\ UNCHANGED <<phase, derivePathImpl, mnemonicWords, pathTypes, wallets,
                   visiblePrivateKeys, mnemonicInput, showMnemonic, storage,
                   issued, faults>>

\* a handler without the guard on the mnemonic
NoMnemonicNever(words) == FALSE

\* if (!mnemonicWords.length)
NoMnemonic(words) == Len(words) = 0

\* the Add Wallet button, rendered while there is a wallet
handleAddWallet ==
    /\ phase = "ready"
    /\ Len(wallets) > 0
    /\ Len(wallets) < MaxWallets
    /\ op' = Op("addWallet")
    /\ faults' = faults
    /\ showMnemonic' = showMnemonic
    /\ clipboard' = <<>>
    /\ IF NoMnemonic(mnemonicWords)
       THEN /\ toasts' = <<Toast("warning",
                                 "No mnemonic found. Generate a wallet first")>>
            /\ derivations' = <<>>
            /\ UNCHANGED <<wallets, visiblePrivateKeys, storage, issued>>
       ELSE LET r == generateWalletFromMnemonic(First(pathTypes),
                                                Join(mnemonicWords), Len(wallets))
                updatedWallets == AppendWallet(wallets, r.wallet)
            IN  /\ derivations' = <<r>>
                /\ IF r.wallet # <<>>
                   THEN /\ wallets' = updatedWallets
                        /\ storage' = [storage EXCEPT
                                          !.wallets = Stringify(updatedWallets)]
                        /\ visiblePrivateKeys' = Append(visiblePrivateKeys, FALSE)
                        /\ toasts' = r.toasts \o
                               <<Toast("success", "Additional wallet created")>>
                        /\ issued' = issued \cup {Len(wallets)}
                   ELSE /\ toasts' = r.toasts
                        /\ UNCHANGED <<wallets, storage, visiblePrivateKeys,
                                       issued>>
    /\ UNCHANGED <<phase, derivePathImpl, mnemonicWords, pathTypes,
                   mnemonicInput>>

\* the mount, the load effect and the handlers that change the collection
Next ==
    \/ Load
    \/ Reload
    \/ \E chain \in pathTypeNames : ChooseChain(chain)
    \/ \E text \in InputStrings : SetMnemonicInput(text)
    \/ handleGenerateWallet
    \/ handleAddWallet
    \/ \E index \in 0 .. MaxWallets - 1 : handleDeleteWallet(index)
    \/ handleClearWallets
    \/ \E index \in 0 .. MaxWallets - 1 : togglePrivateKeyVisibility(index)

\* the component over whatever localStorage holds at the first mount
Spec == Init /\ [][Next]_vars

\* the component over a localStorage that only the component has written
SpecFresh == InitFresh /\ [][Next]_vars

\* the handlers and the clicks that copy to the clipboard
NextClipboard ==
    \/ Next
    \/ ToggleShowMnemonic
    \/ CopyMnemonic
    \/ \E index \in 0 .. MaxWallets - 1 : CopyPublicKey(index)
    \/ \E index \in 0 .. MaxWallets - 1 : CopyPrivateKey(index)

\* the component over an empty localStorage, the copy clicks included
SpecClipboard == InitFresh /\ [][NextClipboard]_vars

(***************************************************************************)
(* localStorage.setItem throwing (QuotaExceededError)                      *)
(*                                                                         *)
(* No handler catches it: the handler ends at the setItem that throws, the *)
(* state setters it called before are applied, the statements after are    *)
(* not run.  failAt counts the setItem calls of the handler from 1.        *)
(***************************************************************************)
\* handleDeleteWallet: setWallets, setPathTypes, setItem("wallets"),
\* setItem("paths"), setVisiblePrivateKeys, toast
handleDeleteWalletThrowing(index, failAt) ==
    /\ phase = "ready"
    /\ index \in 0 .. Len(wallets) - 1
    /\ failAt \in 1 .. 2
    /\ LET updatedWallets == FilterOutIndex(wallets, index)
           updatedPathTypes == FilterOutIndex(pathTypes, index)
       IN  /\ wallets' = updatedWallets
           /\ pathTypes' = updatedPathTypes
           /\ storage' = IF failAt = 1 THEN storage
                         ELSE [storage EXCEPT !.wallets = Stringify(updatedWallets)]
    /\ op' = OpThrew("deleteWallet", index)
    /\ faults < MaxFaults
    /\ faults' = faults + 1
    /\ showMnemonic' = showMnemonic
    /\ clipboard' = <<>>
    /\ toasts' = <<>>
    /\ derivations' = <<>>
    /\ UNCHANGED <<phase, derivePathImpl, mnemonicWords, visiblePrivateKeys,
                   mnemonicInput, issued>>

\* handleGenerateWallet, once the wallet is derived: setWallets,
\* setItem("wallets"), setItem("mnemonics"), setItem("paths"),
\* setVisiblePrivateKeys, toast
handleGenerateWalletThrowing(failAt) ==
    /\ phase = "ready"
    /\ ShowsMnemonicEntry
    /\ ~RejectsInput(mnemonicInput)
    /\ failAt \in 1 .. 3
    /\ \E mnemonic \in (IF Trim(mnemonicInput) # <<>>
                        THEN {Trim(mnemonicInput)} ELSE generateMnemonic) :
          LET words == Split(mnemonic)
              r == generateWalletFromMnemonic(First(pathTypes), mnemonic,
                                              Len(wallets))
              updatedWallets == AppendWallet(wallets, r.wallet)
          IN  /\ r.wallet # <<>>
              /\ mnemonicWords' = words
              /\ derivations' = <<r>>
              /\ wallets' = updatedWallets
              /\ storage' =
                    CASE failAt = 1 -> storage
                      [] failAt = 2 ->
                            [storage EXCEPT !.wallets = Stringify(updatedWallets)]
                      [] OTHER ->
                            [storage EXCEPT !.wallets = Stringify(updatedWallets),
                                            !.mnemonics = Stringify(words)]
              /\ toasts' = r.toasts
              /\ issued' = issued \cup {Len(wallets)}
    /\ op' = OpThrew("createFirstWallet", -1)
    /\ faults < MaxFaults
    /\ faults' = faults + 1
    /\ showMnemonic' = showMnemonic
    /\ clipboard' = <<>>
    /\ UNCHANGED <<phase, derivePathImpl, pathTypes, visiblePrivateKeys,
                   mnemonicInput>>

\* handleAddWallet, once the wallet is derived: setWallets,
\* setItem("wallets"), setVisiblePrivateKeys, toast
handleAddWalletThrowing ==
    /\ phase = "ready"
    /\ Len(wallets) > 0
    /\ Len(wallets) < MaxWallets
    /\ ~NoMnemonic(mnemonicWords)
    /\ LET r == generateWalletFromMnemonic(First(pathTypes),
                                           Join(mnemonicWords), Len(wallets))
       IN  /\ r.wallet # <<>>
           /\ derivations' = <<r>>
           /\ wallets' = AppendWallet(wallets, r.wallet)
           /\ toasts' = r.toasts
           /\ issued' = issued \cup {Len(wallets)}
    /\ op' = OpThrew("addWallet", -1)
    /\ faults < MaxFaults
    /\ faults' = faults + 1
    /\ showMnemonic' = showMnemonic
    /\ clipboard' = <<>>
    /\ UNCHANGED <<phase, derivePathImpl, mnemonicWords, pathTypes,
                   visiblePrivateKeys, mnemonicInput, storage>>

NextFaulty ==
    \/ Next
    \/ \E failAt \in 1 .. 3 : handleGenerateWalletThrowing(failAt)
    \/ handleAddWalletThrowing
    \/ \E index \in 0 .. MaxWallets - 1, failAt \in 1 .. 2 :
           handleDeleteWalletThrowing(index, failAt)

\* the component over a localStorage whose setItem can throw
SpecFaulty == InitFresh /\ [][NextFaulty]_vars

(***************************************************************************)
(* derivePath called on its own                                            *)
(***************************************************************************)
\* how many segments a path has after "m"
MaxSegments == 3

\* segment texts: two numbers and a text parseInt gives NaN for
SegmentTexts == {"0", "1", "x"}

RECURSIVE PathsOfLength(_)
PathsOfLength(n) ==
    IF n = 0 THEN {<<Segment("m", FALSE)>>}
    ELSE {Append(path, Segment(text, hardened)) :
             path \in PathsOfLength(n - 1), text \in SegmentTexts,
             hardened \in BOOLEAN}

Paths == UNION {PathsOfLength(n) : n \in 0 .. MaxSegments}

\* 64-byte seeds, as mnemonicToSeedSync returns them
Seeds == {mnemonicToSeedSync(Phrase(ws)) : ws \in ValidWordLists}

\* derivePath(path, seed): the call and what it returned or that it threw;
\* one call per run, the function keeping nothing between calls
DerivePathCall(path, seed) ==
    /\ op = NoOp
    /\ derivations' = <<[call |-> [path |-> path, seed |-> seed],
                         derived |-> derivePath(path, seed)]>>
    /\ op' = Op("derivePath")
    /\ UNCHANGED <<phase, derivePathImpl, mnemonicWords, pathTypes, wallets,
                   visiblePrivateKeys, mnemonicInput, showMnemonic, storage,
                   toasts, issued, faults, clipboard>>

NextDerive == \E path \in Paths, seed \in Seeds : DerivePathCall(path, seed)

\* derivePath over every path and seed of the bounds, in either build
SpecDerive == InitFresh /\ [][NextDerive]_vars

(***************************************************************************)
(* Properties                                                              *)
(***************************************************************************)
LastWallet(ws) == ws[Len(ws)]

\* the last operation called generateWalletFromMnemonic and got null
DerivationFailed(ds) == ds # <<>> /\ ds[1].wallet = <<>>

\* C1: a wallet appended by addWallet has an account index greater than
\* every account index handed out before in the collection, deleted wallets
\* included: no index is used twice between two clearAll.
C1_IndexNeverReused ==
    [][(op'.name = "addWallet" /\ Len(wallets') = Len(wallets) + 1)
          => \A k \in issued : AccountIndex(LastWallet(wallets').path) > k]_vars

\* C2: deleteWallet leaves the chain selection as it was, in memory and in
\* the persisted "paths" key.
C2_DeleteKeepsChain ==
    [][op'.name = "deleteWallet"
          => /\ pathTypes' = pathTypes
             /\ storage'.paths = Stringify(pathTypes)]_vars

\* C3: with a mnemonic and at least one wallet, addWallet appends exactly
\* one wallet, derived from the collection's mnemonic, with the path
\* m/44'/<coin type of the active chain>'/0'/<number of wallets before>'.
C3_AddAlwaysSucceeds ==
    [][(op'.name = "addWallet" /\ Len(mnemonicWords) > 0 /\ Len(wallets) > 0)
          => /\ Len(wallets') = Len(wallets) + 1
             /\ SubSeq(wallets', 1, Len(wallets)) = wallets
             /\ First(pathTypes) \in pathTypeNames
             /\ LastWallet(wallets').mnemonic = Join(mnemonicWords)
             /\ LastWallet(wallets').path = PathOf(First(pathTypes), Len(wallets))]_vars

\* C4: there are as many visibility flags as wallets, in every state.
C4_FlagsMatchWallets == Len(visiblePrivateKeys) = Len(wallets)

\* C5: a createFirstWallet or addWallet whose derivation fails changes
\* neither the wallets, the flags, the mnemonic, the chain selection nor the
\* persisted keys; createFirstWallet replaces the mnemonic only when it
\* succeeds.
C5_FailedDerivationIsAtomic ==
    [][(op'.name \in {"createFirstWallet", "addWallet"} /\ DerivationFailed(derivations'))
          => UNCHANGED <<wallets, visiblePrivateKeys, mnemonicWords, pathTypes,
                         storage>>]_vars

\* C6: no derivation is called with a chain type other than Solana and
\* Ethereum, so that the UnsupportedChain branch is never taken.
C6_NoUnsupportedChain ==
    \A k \in 1 .. Len(derivations) :
        /\ derivations[k].call.pathType \in pathTypeNames
        /\ derivations[k].branch # "UnsupportedChain"

\* C7: deleteWallet(i), 0 <= i < n, leaves the n - 1 other wallets, in their
\* order and unchanged (paths not renumbered), and persists that list.
C7_DeleteRemovesExactlyOne ==
    [][(op'.name = "deleteWallet" /\ op'.index \in 0 .. Len(wallets) - 1)
          => /\ Len(wallets') = Len(wallets) - 1
             /\ \A k \in 1 .. Len(wallets') :
                    wallets'[k] = IF k - 1 < op'.index THEN wallets[k]
                                  ELSE wallets[k + 1]
             /\ storage'.wallets = Stringify(wallets')]_vars

\* C8: after clearAll there is no wallet, no flag, no mnemonic, no chain
\* selection and none of the three persisted keys.
C8_ClearResetsEverything ==
    op.name = "clearAll"
        => /\ wallets = <<>>
           /\ visiblePrivateKeys = <<>>
           /\ mnemonicWords = <<>>
           /\ pathTypes = <<>>
           /\ storage = EmptyStorage

\* clearAll ran on a collection that had been persisted and whose user had
\* typed a phrase
C8_Witness ==
    /\ op.name = "clearAll"
    /\ mnemonicInput # <<>>
    /\ storage.wallets = NoItem

\* C9: while no chain is selected, createFirstWallet and addWallet leave
\* the wallets as they are.
C9_NoWalletWithoutChain ==
    [][(op'.name \in {"createFirstWallet", "addWallet"} /\ pathTypes = <<>>)
          => wallets' = wallets]_vars

\* addWallet ran with no chain selected: it called the derivation, got no
\* wallet, and the wallets it had are still there
C9_Witness ==
    /\ op.name = "addWallet"
    /\ pathTypes = <<>>
    /\ DerivationFailed(derivations)
    /\ Len(wallets) > 0

\* C10: createFirstWallet with a non-blank input that validateMnemonic
\* refuses calls no derivation and changes neither the wallets, the flags,
\* the mnemonic, the chain selection nor the persisted keys.
C10_InvalidPhraseRejected ==
    [][(/\ op'.name = "createFirstWallet"
        /\ Trim(mnemonicInput) # <<>>
        /\ ~validateMnemonic(Trim(mnemonicInput)))
          => /\ derivations' = <<>>
             /\ UNCHANGED <<wallets, visiblePrivateKeys, mnemonicWords,
                            pathTypes, storage>>]_vars

\* createFirstWallet ran on an invalid phrase and reported it
C10_Witness ==
    /\ op.name = "createFirstWallet"
    /\ Trim(mnemonicInput) # <<>>
    /\ ~validateMnemonic(Trim(mnemonicInput))
    /\ toasts = <<Toast("error", "Invalid recovery phrase")>>

\* C11: addWallet called while the collection has no mnemonic reports
\* NoMnemonic, calls no derivation and leaves the wallets, the flags, the
\* chain selection and the persisted keys as they were.
C11_NoMnemonicRejected ==
    [][(op'.name = "addWallet" /\ Len(mnemonicWords) = 0)
          => /\ toasts' = <<Toast("warning",
                                  "No mnemonic found. Generate a wallet first")>>
             /\ derivations' = <<>>
             /\ UNCHANGED <<wallets, visiblePrivateKeys, pathTypes, storage>>]_vars

\* addWallet ran on wallets loaded together with an empty word list
C11_Witness ==
    /\ op.name = "addWallet"
    /\ mnemonicWords = <<>>
    /\ Len(wallets) > 0
    /\ Len(toasts) = 1
    /\ toasts[1].kind = "warning"

\* C12: whenever the collection holds a wallet, the load step run on the
\* persisted keys gives back the wallets, the mnemonic words and the chain
\* selection that are in memory.
C12_PersistenceRoundTrip ==
    (phase = "ready" /\ Len(wallets) >= 1)
        => LET loaded == LoadOutcome(storage)
           IN  /\ loaded.wallets = wallets
               /\ loaded.mnemonicWords = mnemonicWords
               /\ loaded.pathTypes = pathTypes

\* C13: an operation whose localStorage write fails changes neither the
\* wallets, the flags, the mnemonic, the chain selection nor any persisted
\* key.
C13_WriteFailureIsAtomic ==
    [][op'.threw
          => UNCHANGED <<wallets, visiblePrivateKeys, mnemonicWords, pathTypes,
                         storage>>]_vars

\* C14: a load that finds one of the three keys absent leaves the wallets,
\* the flags, the mnemonic and the chain selection empty and emits no error.
C14_PartialKeysAreNoSavedState ==
    (op.name = "load"
        /\ (storage.wallets = NoItem \/ storage.mnemonics = NoItem
               \/ storage.paths = NoItem))
        => /\ wallets = <<>>
           /\ visiblePrivateKeys = <<>>
           /\ mnemonicWords = <<>>
           /\ pathTypes = <<>>
           /\ toasts = <<>>

\* the load found "wallets" and "paths" but no "mnemonics"
C14_Witness ==
    /\ op.name = "load"
    /\ storage.wallets = Stringify(<<StoredWallet>>)
    /\ storage.mnemonics = NoItem
    /\ storage.paths # NoItem

\* C15: a load that finds the three keys, one of them unparsable, ends with
\* no wallet and no chain selection, whichever key it is.
C15_CorruptKeyFallsBackToEmpty ==
    (op.name = "load"
        /\ HasSavedState(storage)
        /\ (storage.wallets = Unparsable \/ storage.mnemonics = Unparsable
               \/ storage.paths = Unparsable))
        => /\ wallets = <<>>
           /\ pathTypes = <<>>

\* C16: the wallets of the collection all have the same coin type in their
\* path, and it is the chain selection whenever a chain is selected.
C16_OneChainPerCollection ==
    /\ \A j, k \in 1 .. Len(wallets) :
           CoinType(wallets[j].path) = CoinType(wallets[k].path)
    /\ Len(pathTypes) > 0
           => \A k \in 1 .. Len(wallets) :
                  CoinType(wallets[k].path) = First(pathTypes)

\* C17: every wallet carries the mnemonic of the collection, which is
\* mnemonicWords joined by single spaces.
C17_WalletsShareTheMnemonic ==
    \A k \in 1 .. Len(wallets) :
        /\ wallets[k].mnemonic = Join(mnemonicWords)
        /\ Split(wallets[k].mnemonic) = mnemonicWords

\* a wallet has been created from the mnemonic of the collection
MnemonicAssociated == issued # {} \/ Len(wallets) > 0

\* C18 as stated: once a wallet has been created from the mnemonic, addWallet,
\* deleteWallet, toggleVisibility and a later createFirstWallet leave the
\* mnemonic as it is.
C18_MnemonicNeverReplaced ==
    [][(MnemonicAssociated
           /\ op'.name \in {"addWallet", "deleteWallet", "toggleVisibility",
                            "createFirstWallet"})
          => mnemonicWords' = mnemonicWords]_vars

\* C18: while the collection holds a wallet, no operation other than clearAll
\* changes the mnemonic; createFirstWallet, which is offered only once every
\* wallet is gone, is the one that replaces it.
C18_MnemonicFixedWhileWalletsExist ==
    [][/\ (phase = "ready" /\ phase' = "ready" /\ Len(wallets) > 0
              /\ op'.name # "clearAll")
          => mnemonicWords' = mnemonicWords
       /\ (phase = "ready" /\ phase' = "ready"
              /\ mnemonicWords' # mnemonicWords)
          => op'.name \in {"clearAll", "createFirstWallet"}]_vars

\* a delete that left wallets behind, the mnemonic still in place
C18_Witness ==
    /\ op.name = "deleteWallet"
    /\ Len(wallets) >= 1
    /\ mnemonicWords \in ValidWordLists

\* C19: every operation but clearAll leaves the wallets it keeps as they
\* were: a delete keeps the others in order, the rest keep all of them.
C19_WalletRecordsImmutable ==
    [][(phase = "ready" /\ phase' = "ready" /\ op'.name # "clearAll")
          => IF op'.name = "deleteWallet"
             THEN /\ Len(wallets') = Len(wallets) - 1
                  /\ \A k \in 1 .. Len(wallets') :
                         wallets'[k] = wallets[IF k <= op'.index THEN k
                                               ELSE k + 1]
             ELSE /\ Len(wallets') >= Len(wallets)
                  /\ \A k \in 1 .. Len(wallets) : wallets'[k] = wallets[k]]_vars

\* a wallet added behind two others
C19_Witness ==
    /\ op.name = "addWallet"
    /\ Len(wallets) = 3
    /\ derivations # <<>>
    /\ ~DerivationFailed(derivations)

\* C20: the wallet a successful createFirstWallet appends has account index
\* 0 under the coin type of the selected chain.
C20_FirstWalletIsIndexZero ==
    [][(op'.name = "createFirstWallet" /\ Len(wallets') > Len(wallets))
          => /\ First(pathTypes) \in pathTypeNames
             /\ LastWallet(wallets').path = PathOf(First(pathTypes), 0)
             /\ AccountIndex(LastWallet(wallets').path) = 0
             /\ Len(wallets') = 1]_vars

\* a first wallet has just been created
C20_Witness ==
    /\ op.name = "createFirstWallet"
    /\ Len(wallets) = 1
    /\ AccountIndex(wallets[1].path) = 0

\* C21: toggleVisibility(i) negates the flag at index i and leaves the other
\* flags, the wallets, the mnemonic, the chain selection and the persisted
\* keys as they were.
C21_ToggleFlipsExactlyOneFlag ==
    [][op'.name = "toggleVisibility"
          => /\ Len(visiblePrivateKeys') = Len(visiblePrivateKeys)
             /\ op'.index + 1 \in 1 .. Len(visiblePrivateKeys)
             /\ \A k \in 1 .. Len(visiblePrivateKeys) :
                    visiblePrivateKeys'[k] =
                        IF k = op'.index + 1 THEN ~visiblePrivateKeys[k]
                        ELSE visiblePrivateKeys[k]
             /\ UNCHANGED <<wallets, mnemonicWords, pathTypes, storage>>]_vars

\* C22: writeText is called only by the three copy clicks, with the public
\* key, the mnemonic phrase or the private key of the clicked wallet, and
\* what it is given is never the private key of a wallet whose flag is
\* false.
C22_ClipboardGetsOnlyRevealedKeys ==
    /\ op.name \notin {"copyMnemonic", "copyPublicKey", "copyPrivateKey"}
           => clipboard = <<>>
    /\ op.name = "copyMnemonic" => clipboard = <<Join(mnemonicWords)>>
    /\ op.name = "copyPublicKey"
           => clipboard = <<wallets[op.index + 1].publicKey>>
    /\ op.name = "copyPrivateKey"
           => /\ clipboard \in {<<>>, <<wallets[op.index + 1].privateKey>>}
              /\ \A c \in 1 .. Len(clipboard), k \in 1 .. Len(wallets) :
                     wallets[k].privateKey = clipboard[c]
                         => FlagAt(visiblePrivateKeys, k - 1)

\* C23: every completed chooseChain, createFirstWallet, addWallet,
\* deleteWallet, clearAll, toggleVisibility and load has emitted exactly one
\* toast.
C23_OneToastPerOperation ==
    (op.name \in {"chooseChain", "createFirstWallet", "addWallet",
                  "deleteWallet", "clearAll", "toggleVisibility", "load"}
        /\ ~op.threw)
        => Len(toasts) = 1

Malformed(path) ==
    \E i \in 2 .. Len(path) : ~IsDecimal(path[i].text) \/ ~path[i].hardened

\* C25: derivePath on a malformed path throws and returns no key.
C25_MalformedPathIsRejected ==
    \A d \in 1 .. Len(derivations) :
        (op.name = "derivePath" /\ Malformed(derivations[d].call.path))
            => /\ derivations[d].derived.threw
               /\ derivations[d].derived.key = <<>>

\* C26: the key derivePath returns has 32 bytes.
C26_KeyHas32Bytes ==
    \A d \in 1 .. Len(derivations) :
        (op.name = "derivePath" /\ ~derivations[d].derived.threw)
            => ByteLength(derivations[d].derived.key[1]) = 32

\* C27: no two wallets of the collection have the same derivation path.
C27_NoDuplicatePaths ==
    \A j, k \in 1 .. Len(wallets) :
        j # k => wallets[j].path # wallets[k].path

\* C28: after deleteWallet(i) every remaining wallet has, at its new
\* position, the flag it had at its old position.
C28_DeleteKeepsFlagPairing ==
    [][op'.name = "deleteWallet"
          => \A k \in 1 .. Len(wallets') :
                 FlagAt(visiblePrivateKeys', k - 1)
                     = FlagAt(visiblePrivateKeys,
                              IF k <= op'.index THEN k - 1 ELSE k)]_vars

\* C29: an appended wallet is hidden and the flags of the others stay, every
\* wallet is hidden after a load, and a wallet that was hidden is revealed
\* by no operation but toggleVisibility of its index.
C29_HiddenByDefault ==
    [][/\ (op'.name \in {"createFirstWallet", "addWallet"}
              /\ Len(wallets') > Len(wallets))
          => /\ ~FlagAt(visiblePrivateKeys', Len(wallets') - 1)
             /\ \A k \in 1 .. Len(wallets) :
                    FlagAt(visiblePrivateKeys', k - 1)
                        = FlagAt(visiblePrivateKeys, k - 1)
       /\ op'.name = "load"
          => \A k \in 1 .. Len(wallets') : ~FlagAt(visiblePrivateKeys', k - 1)
       /\ op'.name = "deleteWallet"
          => \A k \in 1 .. Len(wallets') :
                 FlagAt(visiblePrivateKeys', k - 1)
                     => FlagAt(visiblePrivateKeys,
                               IF k <= op'.index THEN k - 1 ELSE k)
       /\ op'.name \notin {"deleteWallet", "load", "mount"}
          => \A k \in 1 .. Len(wallets') :
                 (FlagAt(visiblePrivateKeys', k - 1)
                     /\ ~FlagAt(visiblePrivateKeys, k - 1))
                     => op' = OpAt("toggleVisibility", k - 1)]_vars

=============================================================================
